---------------------------- MODULE Spec2Model ----------------------------
(***************************************************************************)
(* Model of the multi-stage test step of ci-tools (package steps):         *)
(* multiStageTestStep.Run and the functions it calls, together with the    *)
(* goroutines that runPods and runPod start on the invocation's context.   *)
(* The cluster (secrets and pods of the job namespace) is part of the      *)
(* state; the outcome of every cluster call is an input of the action      *)
(* that issues it.                                                         *)
(***************************************************************************)
EXTENDS Integers, Sequences, FiniteSets, TLC

\* ------------------------------------------------------------------ bounds
\* longest step list of a phase, and most steps of a test definition
MaxSteps == 2
MaxTotalSteps == 3
\* most steps of a test definition under FairSpec
MaxFairSteps == 2
\* invocations of the same test against the same namespace (SpecRerun)
MaxRuns == 2
\* ci-operator-configresolver: most requests served
MaxRequests == 2
\* repo-init: most Tide queries of a Prow configuration, most repositories
\* of a query, and most applications of editProwConfig
MaxQueries == 2
MaxRepos == 2
MaxEdits == 2

\* --------------------------------------------------------------- constants
multiStageTestLabel == "ci.openshift.io/multi-stage-test"

TestNames == {"e2e"}
Profiles == {"", "aws"}
ResourceSpecs == {"ok", "bad"}
ParamResults == {[value |-> "registry/release:tag", err |-> FALSE], [value |-> "", err |-> TRUE]}
\* jobSpec.Namespace, and a pod of another test in that namespace
Namespace == "ci-op-namespace"
ForeignPod == [name |-> "other-step", label |-> "other"]
\* the images a step can run in: s.config makes "src" and "bin" pipeline
\* images and builds "bin" and "installer"; "cli" comes from the release
Froms == {"src", "bin", "installer", "cli"}
PipelineImages == {"src", "bin"}
BuiltImages == {"bin", "installer"}
\* ci-operator-configresolver: the statuses the handlers write, the labels
\* of the error counter, and the names of the query parameters
StatusOK == 200
StatusBadRequest == 400
StatusInternalServerError == 500
StatusNotImplemented == 501
Statuses == {StatusOK, StatusBadRequest, StatusInternalServerError, StatusNotImplemented}
orgQuery == "org"
repoQuery == "repo"
branchQuery == "branch"
variantQuery == "variant"
ErrorLabels ==
    {"query missing org", "query missing repo", "query missing branch", "config not found",
     "failed to resolve config with registry", "failed to marshal config"}
NoRequest == [method |-> "", org |-> "", repo |-> "", branch |-> "", variant |-> ""]
NoAnswers == [getConfig |-> TRUE, resolveConfig |-> TRUE, marshal |-> TRUE]
NoResponse == [headers |-> <<>>, body |-> "", label |-> "", queried |-> <<>>, calls |-> <<>>]
\* requires before Requires is called
NotCalled == [called |-> FALSE, ret |-> <<>>]

VARIABLES
    \* fields of multiStageTestStep
    dry, name, profile, pre, test, post, releaseInitial, releaseLatest, subTests,
    \* the cluster and the dry-run logger
    secrets, pods, logged,
    \* the goroutine executing Run
    pc, phase, podList, idx, podErrs, errs, ret,
    \* the context and the goroutines blocked on it
    cancelled, cancelAt, cleanupTasks, podTask, oldPodTasks, notifierCancelled,
    \* calls issued by the invocation
    trace, deleteCalls, secretCalls, paramCalls, cleanupLog,
    \* number of invocations so far
    runs,
    \* the answer of the last call of Requires
    requires,
    \* repo-init: the Prow configuration being edited, the answers of the
    \* user, and the Tide queries before and after each edit applied
    prowConfig, config, edits,
    \* ci-operator-configresolver: the error counter by label, the requests
    \* observed by status, and the last request with the answers of the
    \* agents to it and its response
    errorRate, observed, request, answers, response

stepVars == <<dry, name, profile, pre, test, post, releaseInitial, releaseLatest, subTests>>
clusterVars == <<secrets, pods, logged>>
runVars == <<pc, phase, podList, idx, podErrs, errs, ret>>
ctxVars == <<cancelled, cancelAt, cleanupTasks, podTask, oldPodTasks, notifierCancelled>>
callVars == <<trace, deleteCalls, secretCalls, paramCalls, cleanupLog>>
resolverVars == <<errorRate, observed, request, answers, response>>
auxVars == <<requires, prowConfig, config, edits, resolverVars>>
vars == <<stepVars, clusterVars, runVars, ctxVars, callVars, runs, auxVars>>

\* ------------------------------------------------------------ pure helpers
StepAs(p, i) == p \o ToString(i)

\* the step lists of phase p of at most MaxSteps steps, the resource request
\* of each step drawn from resourceSpecs and its image from froms
StepListsOver(p, resourceSpecs, froms) ==
    UNION { { [i \in 1..n |-> [as |-> StepAs(p, i), resources |-> f[i], from |-> g[i]]] :
                f \in [1..n -> resourceSpecs], g \in [1..n -> froms] } : n \in 0..MaxSteps }

StepLists(p) == StepListsOver(p, ResourceSpecs, {"src"})

profileSecretName == name \o "-cluster-profile"

PodName(testName, as) == testName \o "-" \o as

\* resourcesFor: TRUE iff the resource request of the step translates
resourcesFor(step) == step.resources = "ok"

RECURSIVE generatePodsFrom(_, _)
generatePodsFrom(steps, i) ==
    IF i > Len(steps) THEN [pods |-> <<>>, errs |-> <<>>]
    ELSE LET rest == generatePodsFrom(steps, i + 1)
             step == steps[i]
         IN IF ~resourcesFor(step)
            THEN [pods |-> rest.pods,
                  errs |-> <<[kind |-> "synthesis", test |-> name, pod |-> step.as]>> \o rest.errs]
            ELSE [pods |-> <<[name |-> PodName(name, step.as),
                              label |-> name,
                              containers |-> <<step.as>>]>> \o rest.pods,
                  errs |-> rest.errs]

\* generatePods returning at the first step that cannot be synthesized
generatePodsStopsAtError(steps) ==
    LET bad == { i \in DOMAIN steps : ~resourcesFor(steps[i]) }
        first == CHOOSE i \in bad : \A j \in bad : i <= j
    IN IF bad = {} THEN generatePodsFrom(steps, 1)
       ELSE [pods |-> generatePodsFrom(SubSeq(steps, 1, first - 1), 1).pods,
             errs |-> <<[kind |-> "synthesis", test |-> name, pod |-> steps[first].as]>>]

\* generatePods handing over the pods in the reverse of the declared order
generatePodsReversed(steps) ==
    LET g == generatePodsFrom(steps, 1)
    IN [pods |-> [i \in DOMAIN g.pods |-> g.pods[Len(g.pods) + 1 - i]], errs |-> g.errs]

\* generatePods leaving out the label of the test
generatePodsUnlabelled(steps) ==
    LET g == generatePodsFrom(steps, 1)
    IN [pods |-> [i \in DOMAIN g.pods |-> [g.pods[i] EXCEPT !.label = ""]], errs |-> g.errs]

\* generatePods, lines 773-815
generatePods(steps) == generatePodsFrom(steps, 1)

StepsOf(p) == CASE p = "pre" -> pre [] p = "test" -> test [] OTHER -> post

ShortCircuit(p) == p \in {"pre", "test"}

\* Run with the test phase run whatever the pre phase returned
NextPhaseAlwaysTest(p, err) ==
    CASE p = "pre" -> "test"
      [] p = "test" -> "post"
      [] OTHER -> "return"

\* Run with the post phase run before the test phase
NextPhasePostFirst(p, err) ==
    CASE p = "pre" -> "post"
      [] p = "post" -> "test"
      [] OTHER -> "return"

\* Run, lines 703-710: the phase that follows phase p returning err
NextPhase(p, err) ==
    CASE p = "pre" -> IF err # <<>> THEN "post" ELSE "test"
      [] p = "test" -> "post"
      [] OTHER -> "return"

\* runPods leaving the loop after every error
BreaksLoopAlways(shortCircuit) == TRUE

\* runPods never leaving the loop after an error
BreaksLoopNever(shortCircuit) == FALSE

\* runPods, lines 899-904: TRUE iff the loop is left after this error
BreaksLoop(shortCircuit) == shortCircuit

\* deletePods: the pods selected by the label selector multiStageTestLabel=test
Selected(testName) == { p \in pods : p.label = testName }

\* TestCaseNotifier.SubTests: one record per container of the pod
NotifierSubTests(pod) ==
    [i \in 1..Len(pod.containers) |-> [pod |-> pod.name, container |-> pod.containers[i]]]

\* s.config.IsPipelineImage and s.config.BuildsImage
IsPipelineImage(from) == from \in PipelineImages
BuildsImage(from) == from \in BuiltImages

\* the links of package api, and the links the parameters of the job register
InternalImageLink(tag) == [kind |-> "internalImage", name |-> tag]
ImagesReadyLink == [kind |-> "imagesReady", name |-> ""]
ReleaseImagesLink == [kind |-> "releaseImages", name |-> ""]
ParamLinks(param) == <<[kind |-> "parameter", name |-> param]>>

\* Requires asking whether the configuration builds the image first
StepNeedsBuiltFirst(step) ==
    IF BuildsImage(step.from) THEN "images"
    ELSE IF IsPipelineImage(step.from) THEN "internal"
    ELSE "release"

\* Requires, lines 723-729: what the image of a step makes the step wait for
StepNeeds(step) ==
    IF IsPipelineImage(step.from) THEN "internal"
    ELSE IF BuildsImage(step.from) THEN "images"
    ELSE "release"

\* Requires, lines 721-730: the loop over the steps, from step i on
RECURSIVE RequiresLoop(_, _)
RequiresLoop(steps, i) ==
    IF i > Len(steps) THEN [ret |-> <<>>, needsImages |-> FALSE, needsRelease |-> FALSE]
    ELSE LET rest == RequiresLoop(steps, i + 1)
             need == StepNeeds(steps[i])
         IN [ret |-> (IF need = "internal" THEN <<InternalImageLink(steps[i].from)>> ELSE <<>>)
                     \o rest.ret,
             needsImages |-> need = "images" \/ rest.needsImages,
             needsRelease |-> need = "release" \/ rest.needsRelease]

\* Requires, lines 720-742
Requires ==
    LET loop == RequiresLoop(pre \o test \o post, 1)
    IN loop.ret
       \o (IF loop.needsImages THEN <<ImagesReadyLink>> ELSE <<>>)
       \o (IF loop.needsRelease THEN <<ReleaseImagesLink>> ELSE <<>>)
       \o (IF profile # ""
           THEN ParamLinks("RELEASE_IMAGE_INITIAL") \o ParamLinks("RELEASE_IMAGE_LATEST")
           ELSE <<>>)

\* Done reporting completion once Run has returned
DoneOnceReturned == [done |-> pc = "done", err |-> <<>>]

\* Done, line 714: (false, nil) whatever the state of the step
Done == [done |-> FALSE, err |-> <<>>]

\* Creates, line 744: nil
Creates == <<>>

\* Provides, lines 745-747: (nil, nil)
Provides == [parameters |-> <<>>, link |-> <<>>]

\* SubTests, line 748: the test-case records collected so far
SubTests == subTests

---------------------------------------------------------------------------
\* the step as newMultiStageTestStep leaves it, no goroutine started and no
\* call issued
StepIdle ==
    /\ dry = FALSE
    /\ releaseInitial = ""
    /\ releaseLatest = ""
    /\ subTests = <<>>
    /\ logged = <<>>
    /\ pc = "start"
    /\ phase = "none"
    /\ podList = <<>>
    /\ idx = 0
    /\ podErrs = <<>>
    /\ errs = <<>>
    /\ ret = <<>>
    /\ cancelled = FALSE
    /\ cancelAt = "never"
    /\ cleanupTasks = 0
    /\ podTask = FALSE
    /\ oldPodTasks = 0
    /\ notifierCancelled = FALSE
    /\ trace = <<>>
    /\ deleteCalls = <<>>
    /\ secretCalls = <<>>
    /\ paramCalls = <<>>
    /\ cleanupLog = 0
    /\ runs = 1
    /\ requires = NotCalled

\* the config resolver has served no request
ResolverIdle ==
    /\ errorRate = [l \in ErrorLabels |-> 0]
    /\ observed = [s \in Statuses |-> 0]
    /\ request = NoRequest
    /\ answers = NoAnswers
    /\ response = NoResponse

\* repo-init has not been started
ProwIdle ==
    /\ prowConfig = <<>>
    /\ config = [org |-> "", repo |-> "", promotes |-> FALSE, promotesWithOpenShift |-> FALSE]
    /\ edits = <<>>

Init ==
    /\ name \in TestNames
    /\ profile \in Profiles
    /\ pre \in StepLists("pre")
    /\ test \in StepLists("test")
    /\ post \in StepLists("post")
    /\ Len(pre) + Len(test) + Len(post) <= MaxTotalSteps
    /\ secrets \in SUBSET {profileSecretName}
    /\ profile = "" => secrets = {}
    /\ pods = {ForeignPod}
    /\ StepIdle
    /\ ProwIdle
    /\ ResolverIdle

---------------------------------------------------------------------------
\* ------------------------------------------------------- the Run goroutine

\* Run without the check of the profile secret
ConfigErrorNoSecretCheck(present, initial, latest) ==
    IF profile = "" THEN <<>>
    ELSE IF initial.err THEN <<[kind |-> "param", param |-> "RELEASE_IMAGE_INITIAL"]>>
    ELSE IF latest.err THEN <<[kind |-> "param", param |-> "RELEASE_IMAGE_LATEST"]>>
    ELSE <<>>

\* Run ignoring the error of the second parameter
ConfigErrorLatestIgnored(present, initial, latest) ==
    IF profile = "" THEN <<>>
    ELSE IF ~present THEN <<[kind |-> "secretNotFound", secret |-> profileSecretName]>>
    ELSE IF initial.err THEN <<[kind |-> "param", param |-> "RELEASE_IMAGE_INITIAL"]>>
    ELSE <<>>

\* Run, lines 686-698: the error of the configuration checks, <<>> if none.
\* present: the Get of the profile secret succeeds; initial, latest: the
\* answers of the parameter source.
ConfigError(present, initial, latest) ==
    IF profile = "" THEN <<>>
    ELSE IF ~present THEN <<[kind |-> "secretNotFound", secret |-> profileSecretName]>>
    ELSE IF initial.err THEN <<[kind |-> "param", param |-> "RELEASE_IMAGE_INITIAL"]>>
    ELSE IF latest.err THEN <<[kind |-> "param", param |-> "RELEASE_IMAGE_LATEST"]>>
    ELSE <<>>

\* Run, lines 685-698: record the dry flag; with a cluster profile, fetch the
\* profile secret and resolve the two release-image parameters.
Run_Config ==
    /\ pc = "start"
    /\ \E dryIn \in BOOLEAN, initial \in ParamResults, latest \in ParamResults :
        LET present == profileSecretName \in secrets
            err == ConfigError(present, initial, latest)
            getInitial == profile # "" /\ present
            getLatest == getInitial /\ ~initial.err
        IN /\ dry' = dryIn
           /\ secretCalls' = IF profile = "" THEN secretCalls
                             ELSE Append(secretCalls, [verb |-> "get", secret |-> profileSecretName,
                                                       result |-> IF present THEN "done" ELSE "notFound"])
           /\ paramCalls' = paramCalls
                  \o (IF getInitial THEN <<[param |-> "RELEASE_IMAGE_INITIAL", err |-> initial.err]>> ELSE <<>>)
                  \o (IF getLatest THEN <<[param |-> "RELEASE_IMAGE_LATEST", err |-> latest.err]>> ELSE <<>>)
           /\ releaseInitial' = IF getInitial THEN initial.value ELSE releaseInitial
           /\ releaseLatest' = IF getLatest THEN latest.value ELSE releaseLatest
           /\ IF err # <<>>
              THEN /\ ret' = err
                   /\ pc' = "done"
              ELSE /\ ret' = ret
                   /\ pc' = "createSecret"
    /\ UNCHANGED <<name, profile, pre, test, post, subTests, clusterVars,
                   phase, podList, idx, podErrs, errs, ctxVars,
                   trace, deleteCalls, cleanupLog, runs, auxVars>>

\* createSecret treating every delete error as fatal
IsFatalDeleteResultNoNotFound(res) == res # "done"

\* createSecret, line 758: a delete error other than not-found is fatal
IsFatalDeleteResult(res) == res \notin {"done", "notFound"}

\* createSecret, lines 750-763, and Run, lines 699-701
createSecret ==
    /\ pc = "createSecret"
    /\ IF dry
       THEN /\ logged' = Append(logged, [kind |-> "Secret", name |-> name])
            /\ pc' = "runSteps"
            /\ phase' = "pre"
            /\ UNCHANGED <<secrets, secretCalls, ret>>
       ELSE \E deleteFails \in BOOLEAN, createFails \in BOOLEAN :
            LET delRes == IF deleteFails THEN "error"
                          ELSE IF name \in secrets THEN "done" ELSE "notFound"
                afterDelete == IF delRes = "done" THEN secrets \ {name} ELSE secrets
                delCall == [verb |-> "delete", secret |-> name, result |-> delRes]
                createRes == IF name \in afterDelete THEN "alreadyExists"
                             ELSE IF createFails THEN "error" ELSE "done"
                createCall == [verb |-> "create", secret |-> name, result |-> createRes]
            IN /\ logged' = logged
               /\ IF IsFatalDeleteResult(delRes)
                  THEN /\ secrets' = afterDelete
                       /\ secretCalls' = Append(secretCalls, delCall)
                       /\ ret' = <<[kind |-> "createSecret", cause |-> "delete"]>>
                       /\ pc' = "done"
                       /\ phase' = phase
                  ELSE /\ secretCalls' = secretCalls \o <<delCall, createCall>>
                       /\ IF createRes = "done"
                          THEN /\ secrets' = afterDelete \cup {name}
                               /\ pc' = "runSteps"
                               /\ phase' = "pre"
                               /\ ret' = ret
                          ELSE /\ secrets' = afterDelete
                               /\ ret' = <<[kind |-> "createSecret", cause |-> "create"]>>
                               /\ pc' = "done"
                               /\ phase' = phase
    /\ UNCHANGED <<stepVars, pods, podList, idx, podErrs, errs, ctxVars,
                   trace, deleteCalls, paramCalls, cleanupLog, runs, auxVars>>

\* Run recording the return of every phase, an error or not
RecordedErrsAlways(err) ==
    Append(errs, [kind |-> "phase", phase |-> phase, test |-> name, err |-> err])

\* Run putting the error of a phase in front of the earlier ones
RecordedErrsInFront(err) ==
    IF err # <<>>
    THEN <<[kind |-> "phase", phase |-> phase, test |-> name, err |-> err]>> \o errs
    ELSE errs

\* Run, lines 703-710: errs once the phase has returned err
RecordedErrs(err) ==
    IF err # <<>>
    THEN Append(errs, [kind |-> "phase", phase |-> phase, test |-> name, err |-> err])
    ELSE errs

\* Run, lines 703-711: the phase returned err; record it and go on to the
\* next phase, or return the aggregate.  tr is the trace up to the return.
ReturnFromPhase(err, tr) ==
    LET errs2 == RecordedErrs(err)
        next == NextPhase(phase, err)
    IN /\ errs' = errs2
       /\ podList' = <<>>
       /\ idx' = 0
       /\ podErrs' = <<>>
       /\ trace' = Append(tr, [ev |-> "return", phase |-> phase, pod |-> "", ok |-> err = <<>>])
       /\ IF next = "return"
          THEN /\ ret' = errs2
               /\ pc' = "done"
               /\ phase' = phase
          ELSE /\ ret' = ret
               /\ pc' = "runSteps"
               /\ phase' = next

\* runSteps, lines 765-771, up to the start of the cleanup goroutine of
\* runPods, lines 877-885
runSteps ==
    /\ pc = "runSteps"
    /\ LET g == generatePods(StepsOf(phase))
           tr == Append(trace, [ev |-> "begin", phase |-> phase, pod |-> "", ok |-> TRUE])
       IN IF g.errs # <<>>
          THEN /\ ReturnFromPhase(g.errs, tr)
               /\ UNCHANGED cleanupTasks
          ELSE /\ podList' = g.pods
               /\ idx' = 1
               /\ podErrs' = <<>>
               /\ cleanupTasks' = cleanupTasks + 1
               /\ trace' = tr
               /\ pc' = "runPods"
               /\ UNCHANGED <<phase, errs, ret>>
    /\ UNCHANGED <<stepVars, clusterVars, cancelled, cancelAt, podTask, oldPodTasks,
                   notifierCancelled, deleteCalls, secretCalls, paramCalls, cleanupLog, runs, auxVars>>

\* runPods, lines 887 and 906: the loop is over, the phase returns
runPods_Return ==
    /\ pc = "runPods"
    /\ idx > Len(podList)
    /\ ReturnFromPhase(podErrs, trace)
    /\ UNCHANGED <<stepVars, clusterVars, ctxVars,
                   deleteCalls, secretCalls, paramCalls, cleanupLog, runs, auxVars>>

\* runPod, lines 910-913: a dry run hands the pod to the logger
runPod_Dry ==
    /\ pc = "runPods"
    /\ idx <= Len(podList)
    /\ dry
    /\ logged' = Append(logged, [kind |-> "Pod", name |-> podList[idx].name])
    /\ idx' = idx + 1
    /\ UNCHANGED <<stepVars, secrets, pods, pc, phase, podList, podErrs, errs, ret,
                   ctxVars, callVars, runs, auxVars>>

\* runPods, lines 887-899, and runPod, lines 914-917: a notifier is made
\* for the pod and the goroutine that cancels it is started
runPod_Start ==
    /\ pc = "runPods"
    /\ idx <= Len(podList)
    /\ ~dry
    /\ podTask' = TRUE
    /\ notifierCancelled' = FALSE
    /\ pc' = "create"
    /\ UNCHANGED <<stepVars, clusterVars, phase, podList, idx, podErrs, errs, ret,
                   cancelled, cancelAt, cleanupTasks, oldPodTasks, callVars, runs, auxVars>>

\* runPods keeping only the last error of the loop
PodFailedKeepsLast(err) ==
    /\ podErrs' = <<err>>
    /\ idx' = IF BreaksLoop(ShortCircuit(phase)) THEN Len(podList) + 1 ELSE idx + 1
    /\ pc' = "runPods"

\* runPods, lines 899-904: runPod returned err for the pod at idx
PodFailed(err) ==
    /\ podErrs' = Append(podErrs, err)
    /\ idx' = IF BreaksLoop(ShortCircuit(phase)) THEN Len(podList) + 1 ELSE idx + 1
    /\ pc' = "runPods"

\* runPod returning only once its goroutine has cancelled the notifier
LeaveRunPodJoins ==
    /\ ~podTask
    /\ podTask' = FALSE
    /\ notifierCancelled' = FALSE
    /\ oldPodTasks' = oldPodTasks

\* runPod returns: its goroutine, if it has not run yet, stays blocked on ctx
LeaveRunPod ==
    /\ podTask' = FALSE
    /\ notifierCancelled' = FALSE
    /\ oldPodTasks' = oldPodTasks + (IF podTask THEN 1 ELSE 0)

\* runPod, lines 918-920: the pod replaces any pod of its name, or the call fails
createOrRestartPod ==
    /\ pc = "create"
    /\ LET pod == podList[idx]
           IN \E ok \in BOOLEAN :
           /\ trace' = Append(trace, [ev |-> "create", phase |-> phase, pod |-> pod.name, ok |-> ok])
           /\ IF ok
              THEN /\ pods' = { p \in pods : p.name # pod.name } \cup {[name |-> pod.name, label |-> pod.label]}
                   /\ pc' = "wait"
                   /\ UNCHANGED <<idx, podErrs, podTask, oldPodTasks, notifierCancelled>>
              ELSE /\ pods' = pods
                   /\ PodFailed([kind |-> "create", test |-> "", pod |-> pod.name])
                   /\ LeaveRunPod
    /\ UNCHANGED <<stepVars, secrets, logged, phase, podList, errs, ret,
                   cancelled, cancelAt, cleanupTasks,
                   deleteCalls, secretCalls, paramCalls, cleanupLog, runs, auxVars>>

\* runPod appending the subtests of the pod whether or not the wait failed
SubTestsAfterWaitAlways(ok, pod) == subTests \o NotifierSubTests(pod)

\* runPod, lines 921-925: s.subTests once the wait has returned
SubTestsAfterWait(ok, pod) ==
    IF ok THEN subTests \o NotifierSubTests(pod) ELSE subTests

\* runPod, lines 921-925: the wait returns, with an error or without
waitForPodCompletion ==
    /\ pc = "wait"
    /\ LET pod == podList[idx]
       IN \E ok \in BOOLEAN :
           /\ trace' = Append(trace, [ev |-> "wait", phase |-> phase, pod |-> pod.name, ok |-> ok])
           /\ subTests' = SubTestsAfterWait(ok, pod)
           /\ IF ok
              THEN /\ idx' = idx + 1
                   /\ pc' = "runPods"
                   /\ podErrs' = podErrs
              ELSE PodFailed([kind |-> "wait", test |-> name, pod |-> pod.name])
    /\ LeaveRunPod
    /\ UNCHANGED <<dry, name, profile, pre, test, post, releaseInitial, releaseLatest,
                   clusterVars, phase, podList, errs, ret,
                   cancelled, cancelAt, cleanupTasks,
                   deleteCalls, secretCalls, paramCalls, cleanupLog, runs, auxVars>>

\* ------------------------------------------- the context and its goroutines

\* the caller cancels the context of the invocation while Run is executing
Cancel ==
    /\ ~cancelled
    /\ pc \notin {"start", "done"}
    /\ cancelled' = TRUE
    /\ cancelAt' = IF pc = "wait" THEN "wait" ELSE "elsewhere"
    /\ UNCHANGED <<stepVars, clusterVars, runVars, cleanupTasks, podTask, oldPodTasks,
                   notifierCancelled, callVars, runs, auxVars>>

\* deletePods, lines 928-941: the pods left after DeleteCollection
deletePods(testName) == pods \ Selected(testName)

\* the cleanup goroutine with the dry check inverted
CleanupIssuesDeleteInverted(d) == d

\* runPods with a cleanup goroutine that deletes in a dry run too
CleanupIssuesDeleteAlways(d) == TRUE

\* runPods with a cleanup goroutine that never deletes
CleanupIssuesDeleteNever(d) == FALSE

\* runPods, line 880: the cleanup goroutine calls deletePods unless dry
CleanupIssuesDelete(d) == ~d

\* the cleanup goroutine handing the error of deletePods to the loop of runPods
ErrsAfterCleanupEscalated(ok) ==
    IF ok \/ pc \notin {"runPods", "create", "wait"} THEN podErrs
    ELSE Append(podErrs, [kind |-> "delete", test |-> name, pod |-> ""])

\* runPods, lines 881-883: the error of deletePods is logged; errs of the
\* loop stays as it is
ErrsAfterCleanup(ok) == podErrs

\* runPods, lines 877-885: one of the cleanup goroutines wakes up
CleanupTask ==
    /\ cancelled
    /\ cleanupTasks > 0
    /\ cleanupTasks' = cleanupTasks - 1
    /\ IF ~CleanupIssuesDelete(dry)
       THEN UNCHANGED <<pods, deleteCalls, cleanupLog, podErrs>>
       ELSE \E ok \in BOOLEAN :
            /\ deleteCalls' = Append(deleteCalls, [namespace |-> Namespace, label |-> multiStageTestLabel, value |-> name])
            /\ pods' = IF ok THEN deletePods(name) ELSE pods
            /\ cleanupLog' = IF ok THEN cleanupLog ELSE cleanupLog + 1
            /\ podErrs' = ErrsAfterCleanup(ok)
    /\ UNCHANGED <<stepVars, secrets, logged, pc, phase, podList, idx, errs, ret,
                   cancelled, cancelAt, podTask,
                   oldPodTasks, notifierCancelled, trace, secretCalls, paramCalls, runs, auxVars>>

\* the goroutine of runPod deleting the pods of the test as well
PodsAfterNotifierCancelDeleted == deletePods(name)

\* runPod, lines 914-917: the goroutine calls notifier.Cancel() and nothing
\* else; the pods stay as they are
PodsAfterNotifierCancel == pods

\* runPod, lines 914-917: the goroutine of the pod being run wakes up
NotifierCancelTask ==
    /\ cancelled
    /\ podTask
    /\ podTask' = FALSE
    /\ notifierCancelled' = TRUE
    /\ pods' = PodsAfterNotifierCancel
    /\ UNCHANGED <<stepVars, secrets, logged, runVars, cancelled, cancelAt, cleanupTasks,
                   oldPodTasks, callVars, runs, auxVars>>

\* runPod, lines 914-917: the goroutine of a pod whose runPod has returned
OldNotifierCancelTask ==
    /\ cancelled
    /\ oldPodTasks > 0
    /\ oldPodTasks' = oldPodTasks - 1
    /\ UNCHANGED <<stepVars, clusterVars, runVars, cancelled, cancelAt, cleanupTasks,
                   podTask, notifierCancelled, callVars, runs, auxVars>>

\* the same test is run again by a new process against the same namespace
Rerun ==
    /\ pc = "done"
    /\ runs < MaxRuns
    /\ runs' = runs + 1
    /\ dry' = FALSE
    /\ releaseInitial' = ""
    /\ releaseLatest' = ""
    /\ subTests' = <<>>
    /\ logged' = <<>>
    /\ pc' = "start"
    /\ phase' = "none"
    /\ podList' = <<>>
    /\ idx' = 0
    /\ podErrs' = <<>>
    /\ errs' = <<>>
    /\ ret' = <<>>
    /\ cancelled' = FALSE
    /\ cancelAt' = "never"
    /\ cleanupTasks' = 0
    /\ podTask' = FALSE
    /\ oldPodTasks' = 0
    /\ notifierCancelled' = FALSE
    /\ trace' = <<>>
    /\ deleteCalls' = <<>>
    /\ secretCalls' = <<>>
    /\ paramCalls' = <<>>
    /\ cleanupLog' = 0
    /\ UNCHANGED <<name, profile, pre, test, post, secrets, pods, auxVars>>

\* the steps of the goroutine that executes Run
RunStep ==
    \/ Run_Config
    \/ createSecret
    \/ runSteps
    \/ runPods_Return
    \/ runPod_Dry
    \/ runPod_Start
    \/ createOrRestartPod
    \/ waitForPodCompletion

\* the steps of the goroutines blocked on the context
TaskStep ==
    \/ CleanupTask
    \/ NotifierCancelTask
    \/ OldNotifierCancelTask

\* one invocation, whose context may be cancelled while it runs
Next == RunStep \/ Cancel \/ TaskStep

Spec == Init /\ [][Next]_vars

\* the test definitions of at most MaxFairSteps steps
InitFair == Init /\ Len(pre) + Len(test) + Len(post) <= MaxFairSteps

\* the Go scheduler runs every goroutine that is runnable
FairSpec ==
    /\ InitFair
    /\ [][Next]_vars
    /\ WF_vars(CleanupTask)
    /\ WF_vars(NotifierCancelTask)
    /\ WF_vars(OldNotifierCancelTask)

\* every cluster call and every wait for a pod returns: the goroutine that
\* executes Run takes its next step; nothing is assumed of the context or of
\* the goroutines blocked on it
RunFairSpec == InitFair /\ [][Next]_vars /\ WF_vars(RunStep)

\* the test run again and again, each time by a new process, no context cancelled
NextRerun == RunStep \/ Rerun

SpecRerun == Init /\ [][NextRerun]_vars

---------------------------------------------------------------------------
\* ------------------------------------------------------------- Requires

\* a step whose steps run in any of the images, before Run is called
InitRequires ==
    /\ name \in TestNames
    /\ profile \in Profiles
    /\ pre \in StepListsOver("pre", {"ok"}, Froms)
    /\ test \in StepListsOver("test", {"ok"}, Froms)
    /\ post \in StepListsOver("post", {"ok"}, Froms)
    /\ Len(pre) + Len(test) + Len(post) <= MaxTotalSteps
    /\ secrets = {}
    /\ pods = {ForeignPod}
    /\ StepIdle
    /\ ProwIdle
    /\ ResolverIdle

\* the graph builder asks the step for its requirements
CallRequires ==
    /\ ~requires.called
    /\ requires' = [called |-> TRUE, ret |-> Requires]
    /\ UNCHANGED <<stepVars, clusterVars, runVars, ctxVars, callVars, runs,
                   prowConfig, config, edits, resolverVars>>

SpecRequires == InitRequires /\ [][CallRequires]_vars

---------------------------------------------------------------------------
\* ------------------------------------- two tests sharing the namespace

\* names of tests of one configuration, and names of their steps
SharedTestNames == {"e2e", "e2e-aws"}
SharedStepNames == {"setup", "aws-setup"}

\* the step lists of a phase of a test that shares the namespace
SharedStepLists ==
    {<<>>} \cup { <<[as |-> a, resources |-> "ok", from |-> "src"]>> : a \in SharedStepNames }

\* the pods generatePods makes for a test of the given name and step names
PodsOfTest(testName, stepNames) ==
    { [name |-> PodName(testName, a), label |-> testName] : a \in stepNames }

\* the step of one test, before Run is called, in a namespace where the pods
\* of another test of the configuration are running
InitShared ==
    /\ name \in SharedTestNames
    /\ profile = ""
    /\ pre \in SharedStepLists
    /\ test \in SharedStepLists
    /\ post \in SharedStepLists
    /\ secrets = {}
    /\ \E other \in SharedTestNames \ {name} :
          \E stepNames \in SUBSET SharedStepNames :
              pods = PodsOfTest(other, stepNames)
    /\ StepIdle
    /\ ProwIdle
    /\ ResolverIdle

SpecShared == InitShared /\ [][RunStep]_vars

---------------------------------------------------------------------------
\* ------------------------------------------------------------ repo-init

\* the repositories Tide queries can list: the two repositories whose queries
\* are copied, and the repository being set up
RepoNames == {"openshift/origin", "openshift/ci-tools", "org/repo"}

\* the sequences of at most n elements of S
RECURSIVE SeqsUpTo(_, _)
SeqsUpTo(S, n) ==
    IF n = 0 THEN {<<>>}
    ELSE LET shorter == SeqsUpTo(S, n - 1)
         IN shorter \cup { Append(q, x) : q \in shorter, x \in S }

\* the repositories of a query: no repository twice
RepoLists == { q \in SeqsUpTo(RepoNames, MaxRepos) :
                 \A i, j \in DOMAIN q : i # j => q[i] # q[j] }

TideQueries == { [repos |-> r] : r \in RepoLists }

InitConfigs ==
    [org : {"org"}, repo : {"repo"}, promotes : BOOLEAN, promotesWithOpenShift : BOOLEAN]

\* org/repo
RepoOf(cfg) == cfg.org \o "/" \o cfg.repo

\* the queries of the Tide configuration that list the repository
ForRepo(queries, repoName) ==
    { i \in DOMAIN queries : \E k \in DOMAIN queries[i].repos : queries[i].repos[k] = repoName }

\* the repository whose Tide queries the new repository shares
CopiedRepo(cfg) ==
    IF cfg.promotes /\ cfg.promotesWithOpenShift THEN "openshift/origin" ELSE "openshift/ci-tools"

\* editProwConfig adding the repository whether or not a query lists it
editProwConfigUnchecked(queries, cfg) ==
    [i \in DOMAIN queries |->
        IF i \in ForRepo(queries, CopiedRepo(cfg))
        THEN [repos |-> Append(queries[i].repos, RepoOf(cfg))]
        ELSE queries[i]]

\* editProwConfig: the Tide queries it leaves.  Nothing changes when some
\* query lists the repository; else the repository is appended to every
\* query that lists the repository it copies
editProwConfig(queries, cfg) ==
    IF ForRepo(queries, RepoOf(cfg)) # {} THEN queries
    ELSE [i \in DOMAIN queries |->
            IF i \in ForRepo(queries, CopiedRepo(cfg))
            THEN [repos |-> Append(queries[i].repos, RepoOf(cfg))]
            ELSE queries[i]]

\* repo-init has loaded a Prow configuration and the answers of the user
InitProw ==
    /\ prowConfig \in UNION { [1..n -> TideQueries] : n \in 0..MaxQueries }
    /\ config \in InitConfigs
    /\ edits = <<>>
    /\ name \in TestNames
    /\ profile = ""
    /\ pre = <<>> /\ test = <<>> /\ post = <<>>
    /\ secrets = {}
    /\ pods = {}
    /\ StepIdle
    /\ ResolverIdle

\* editProwConfig is applied to the configuration, in place
CallEditProwConfig ==
    /\ Len(edits) < MaxEdits
    /\ prowConfig' = editProwConfig(prowConfig, config)
    /\ edits' = Append(edits, [before |-> prowConfig, after |-> prowConfig'])
    /\ UNCHANGED <<stepVars, clusterVars, runVars, ctxVars, callVars, runs, requires, config,
                   resolverVars>>

SpecProw == InitProw /\ [][CallEditProwConfig]_vars

---------------------------------------------------------------------------
\* ------------------------------------------- ci-operator-configresolver

\* the requests the /config handler can get
Requests ==
    [method : {"GET", "POST"}, org : {"", "openshift"}, repo : {"", "ci-tools"},
     branch : {"", "master"}, variant : {"", "rhel"}]

\* the answers of the agents and of the JSON encoder to a request
AgentAnswers == [getConfig : BOOLEAN, resolveConfig : BOOLEAN, marshal : BOOLEAN]

\* resolveConfig asking for the branch first
FirstMissingBranchFirst(req) ==
    IF req.branch = "" THEN <<orgQuery, repoQuery, branchQuery>>
    ELSE IF req.org = "" THEN <<orgQuery>>
    ELSE IF req.repo = "" THEN <<orgQuery, repoQuery>>
    ELSE <<orgQuery, repoQuery, branchQuery, variantQuery>>

\* resolveConfig, lines 174-189: the query parameters read, up to and
\* including the first of org, repo, branch that is empty
QueriesRead(req) ==
    IF req.org = "" THEN <<orgQuery>>
    ELSE IF req.repo = "" THEN <<orgQuery, repoQuery>>
    ELSE IF req.branch = "" THEN <<orgQuery, repoQuery, branchQuery>>
    ELSE <<orgQuery, repoQuery, branchQuery, variantQuery>>

\* missingQuery, lines 139-143
missingQuery(field, queried) ==
    [headers |-> <<StatusBadRequest>>, body |-> field \o " query missing or incorrect",
     label |-> "query missing " \o field, queried |-> queried, calls |-> <<>>]

\* resolveConfig, lines 167-224: what the handler writes for a request, the
\* label it records an error under ("" if none), the query parameters it
\* reads and the calls it makes, given the answers it would get
resolveConfig(req, ans) ==
    LET queried == QueriesRead(req)
    IN IF req.method # "GET"
       THEN [headers |-> <<StatusNotImplemented>>, body |-> "Not Implemented", label |-> "",
             queried |-> <<>>, calls |-> <<>>]
       ELSE IF queried[Len(queried)] # variantQuery
       THEN missingQuery(queried[Len(queried)], queried)
       ELSE IF ~ans.getConfig
       THEN [headers |-> <<StatusBadRequest>>, body |-> "failed to get config",
             label |-> "config not found", queried |-> queried, calls |-> <<"GetConfig">>]
       ELSE IF ~ans.resolveConfig
       THEN [headers |-> <<StatusInternalServerError>>,
             body |-> "failed to resolve config with registry",
             label |-> "failed to resolve config with registry",
             queried |-> queried, calls |-> <<"GetConfig", "ResolveConfig">>]
       ELSE IF ~ans.marshal
       THEN [headers |-> <<StatusInternalServerError>>,
             body |-> "failed to marshal config to JSON",
             label |-> "failed to marshal config",
             queried |-> queried, calls |-> <<"GetConfig", "ResolveConfig", "MarshalIndent">>]
       ELSE [headers |-> <<StatusOK>>, body |-> "config", label |-> "",
             queried |-> queried, calls |-> <<"GetConfig", "ResolveConfig", "MarshalIndent">>]

\* recordError leaving the counter alone
recordErrorDropped(label) == errorRate

\* recordError, lines 134-137: the counter of the label is incremented
recordError(label) == [errorRate EXCEPT ![label] = @ + 1]

\* traceResponseWriter.WriteHeader, lines 48-51, and handleWithMetrics,
\* lines 145-158:
\* the status observed for a response is the last one written, 200 if none
ObservedStatus(resp) ==
    IF resp.headers = <<>> THEN StatusOK ELSE resp.headers[Len(resp.headers)]

\* the requests served so far
Served ==
    observed[StatusOK] + observed[StatusBadRequest]
    + observed[StatusInternalServerError] + observed[StatusNotImplemented]

\* the server has started and no request has come in
InitResolver ==
    /\ ResolverIdle
    /\ name \in TestNames
    /\ profile = ""
    /\ pre = <<>> /\ test = <<>> /\ post = <<>>
    /\ secrets = {}
    /\ pods = {}
    /\ StepIdle
    /\ ProwIdle

\* handleWithMetrics(resolveConfig(...)), lines 145-157 and 167-224: a
\* request to /config is served
ServeConfig ==
    /\ Served < MaxRequests
    /\ \E req \in Requests, ans \in AgentAnswers :
          LET resp == resolveConfig(req, ans)
          IN /\ request' = req
             /\ answers' = ans
             /\ response' = resp
             /\ errorRate' = IF resp.label = "" THEN errorRate ELSE recordError(resp.label)
             /\ observed' = [observed EXCEPT ![ObservedStatus(resp)] = @ + 1]
    /\ UNCHANGED <<stepVars, clusterVars, runVars, ctxVars, callVars, runs,
                   requires, prowConfig, config, edits>>

SpecResolver == InitResolver /\ [][ServeConfig]_vars

---------------------------------------------------------------------------
\* ------------------------------------------------ what the calls show

\* the positions of the trace that are pod-creation calls of phase p
CreateCalls(p) == { i \in DOMAIN trace : trace[i].ev = "create" /\ trace[i].phase = p }
PhaseBegins(p) == { i \in DOMAIN trace : trace[i].ev = "begin" /\ trace[i].phase = p }
PhaseReturns(p) == { i \in DOMAIN trace : trace[i].ev = "return" /\ trace[i].phase = p }

\* the error Run recorded for phase p, <<>> if none
PhaseError(p) ==
    LET at == { i \in DOMAIN errs : errs[i].phase = p }
    IN IF at = {} THEN <<>> ELSE errs[CHOOSE i \in at : TRUE].err

\* the pod failures of phase p so far: those of the loop while it runs, those
\* Run recorded once it has returned
PodFailures(p) ==
    LET isPodErr(e) == e.kind \in {"create", "wait"}
    IN IF phase = p /\ pc \in {"runPods", "create", "wait"}
       THEN podErrs
       ELSE SelectSeq(PhaseError(p), isPodErr)

\* the configuration checks and the provisioning of the secret have passed
PhasesReached == PhaseBegins("pre") # {}

\* the pods a phase hands to runPods when synthesis succeeds for each step
SynthesisOK(steps) == \A i \in DOMAIN steps : resourcesFor(steps[i])

\* the pod of step i of the post phase was run (handed to the logger if dry)
PostAttempted(i) ==
    LET podName == PodName(name, post[i].as)
    IN IF dry
       THEN \E k \in DOMAIN logged : logged[k] = [kind |-> "Pod", name |-> podName]
       ELSE \E k \in CreateCalls("post") : trace[k].pod = podName

---------------------------------------------------------------------------
\* C1: once the pre phase has returned an error, no test-phase pod is
\* created: the test phase is not begun and no pod-creation call of the
\* test phase is issued.
C1_PreFailedNoTestPod ==
    PhaseError("pre") # <<>> => CreateCalls("test") = {} /\ PhaseBegins("test") = {}

\* C1 witness: Run has returned, the pre phase failed, the test has
\* test-phase steps, and the post phase still created a pod.
C1_Witness ==
    /\ pc = "done"
    /\ PhaseError("pre") # <<>>
    /\ Len(test) > 0
    /\ CreateCalls("post") # {}

\* C2 as stated: once Run has returned from the phases, the pod of every
\* post-phase step that can be synthesized has been run.
C2_EveryPostStepAttempted ==
    (pc = "done" /\ PhasesReached) =>
        \A i \in DOMAIN post : resourcesFor(post[i]) => PostAttempted(i)

\* C2 amended: whatever the pre and test phases returned, Run begins the post
\* phase; when synthesis succeeds for every post-phase step the pod of every
\* post-phase step is run, whether or not earlier ones failed; when synthesis
\* fails for a post-phase step no post-phase pod is run.
C2_PostAttemptedUnlessSynthesisFails ==
    (pc = "done" /\ PhasesReached) =>
        /\ PhaseBegins("post") # {}
        /\ SynthesisOK(post) => \A i \in DOMAIN post : PostAttempted(i)
        /\ ~SynthesisOK(post) => \A i \in DOMAIN post : ~PostAttempted(i)

\* C2 witness: the pre phase failed, the first post-phase pod failed and the
\* second post-phase pod was run all the same.
C2_Witness ==
    /\ pc = "done"
    /\ PhaseError("pre") # <<>>
    /\ Len(post) = 2
    /\ Len(PodFailures("post")) >= 1
    /\ PodFailures("post")[1].pod = PodName(name, post[1].as)
    /\ PostAttempted(2)

\* C3: in the pre and test phases at most one pod fails, the failing pod is
\* the last pod of the phase for which a creation call was issued, and the
\* error of the phase is that one failure.
C3_ShortCircuitStops ==
    \A p \in {"pre", "test"} :
        PodFailures(p) # <<>> =>
            /\ Len(PodFailures(p)) = 1
            /\ \A i \in CreateCalls(p) : \A j \in CreateCalls(p) :
                   trace[i].pod = PodFailures(p)[1].pod => j <= i
            /\ \E i \in CreateCalls(p) : trace[i].pod = PodFailures(p)[1].pod
            /\ PhaseReturns(p) # {} => PhaseError(p) = PodFailures(p)

\* C3 witness: the first of two pre-phase pods failed and the phase returned.
C3_Witness ==
    /\ Len(pre) = 2
    /\ SynthesisOK(pre)
    /\ PhaseReturns("pre") # {}
    /\ PodFailures("pre") # <<>>
    /\ PodFailures("pre")[1].pod = PodName(name, pre[1].as)

\* C4: every test-phase pod is created after the pre phase returned; every
\* post-phase pod is created after the pre phase returned and, when the test
\* phase runs at all, after the test phase returned; and when Run returns from
\* the phases the last thing that happened is the return of the post phase.
C4_PhasesOrdered ==
    /\ \A i \in CreateCalls("test") \cup PhaseBegins("test") : \E j \in PhaseReturns("pre") : j < i
    /\ \A i \in CreateCalls("post") \cup PhaseBegins("post") :
        /\ \E j \in PhaseReturns("pre") : j < i
        /\ \A k \in PhaseBegins("test") \cup CreateCalls("test") : k < i
        /\ PhaseBegins("test") # {} => \E j \in PhaseReturns("test") : j < i
    /\ (pc = "done" /\ PhasesReached) =>
           /\ trace[Len(trace)].ev = "return"
           /\ trace[Len(trace)].phase = "post"

\* C4 witness: Run has returned having created a pod in each of the phases.
C4_Witness ==
    /\ pc = "done"
    /\ CreateCalls("pre") # {}
    /\ CreateCalls("test") # {}
    /\ CreateCalls("post") # {}

\* C5: when a cluster profile is set and its secret is missing, Run returns
\* an error naming <test-name>-cluster-profile and issues no pod creation
\* call, hands no pod to the logger and leaves the pods of the cluster alone.
C5_MissingProfileSecret ==
    (pc # "start" /\ profile # "" /\ (name \o "-cluster-profile") \notin secrets) =>
        /\ pc = "done"
        /\ ret = <<[kind |-> "secretNotFound", secret |-> name \o "-cluster-profile"]>>
        /\ trace = <<>>
        /\ logged = <<>>
        /\ pods = {ForeignPod}

\* C5 witness: Run has returned for a test with a profile, steps and no secret.
C5_Witness ==
    /\ pc = "done"
    /\ profile # ""
    /\ profileSecretName \notin secrets
    /\ Len(pre) > 0
    /\ ret # <<>>

\* C6: when a cluster profile is set and the parameter source fails to
\* resolve RELEASE_IMAGE_INITIAL or RELEASE_IMAGE_LATEST, Run returns the
\* error of that parameter and has mutated nothing: no secret was deleted or
\* created, no pod was created or deleted, nothing was handed to the logger.
C6_UnresolvedParameter ==
    \A i \in DOMAIN paramCalls :
        paramCalls[i].err =>
            /\ pc = "done"
            /\ ret = <<[kind |-> "param", param |-> paramCalls[i].param]>>
            /\ \A k \in DOMAIN secretCalls : secretCalls[k].verb = "get"
            /\ name \notin secrets
            /\ trace = <<>>
            /\ deleteCalls = <<>>
            /\ pods = {ForeignPod}
            /\ logged = <<>>

\* C6 witness: the second parameter, RELEASE_IMAGE_LATEST, did not resolve
\* for a test that has steps, and Run has returned.
C6_Witness ==
    /\ pc = "done"
    /\ Len(paramCalls) = 2
    /\ paramCalls[2] = [param |-> "RELEASE_IMAGE_LATEST", err |-> TRUE]
    /\ Len(pre) > 0

\* the calls of the invocation that delete or create a secret
MutatingSecretCalls ==
    LET mutates(c) == c.verb # "get"
    IN SelectSeq(secretCalls, mutates)

\* C7: in a non-dry Run, once the phases are reached (and so before any pod
\* is created) the results secret named after the test has been deleted and
\* then created, by exactly these two calls, and it exists; a delete that
\* answers not-found is followed by the create, and the create never finds
\* the secret already there, in the first run and in every later one.
C7_SecretRecreated ==
    /\ (~dry /\ (pc \in {"runSteps", "runPods", "create", "wait"} \/ trace # <<>>)) =>
           /\ Len(MutatingSecretCalls) = 2
           /\ MutatingSecretCalls[1].verb = "delete"
           /\ MutatingSecretCalls[1].secret = name
           /\ MutatingSecretCalls[1].result \in {"done", "notFound"}
           /\ MutatingSecretCalls[2] = [verb |-> "create", secret |-> name, result |-> "done"]
           /\ name \in secrets
    /\ \A i \in DOMAIN MutatingSecretCalls :
           /\ (MutatingSecretCalls[i].verb = "delete" /\ MutatingSecretCalls[i].result = "notFound") =>
                  (Len(MutatingSecretCalls) > i /\ MutatingSecretCalls[i + 1].verb = "create")
           /\ MutatingSecretCalls[i].verb = "create" => MutatingSecretCalls[i].result # "alreadyExists"

\* C7 witness: in the second run of the test the secret left by the first
\* run was deleted and created again, and a pod was created after that.
C7_Witness ==
    /\ runs = 2
    /\ ~dry
    /\ MutatingSecretCalls = <<[verb |-> "delete", secret |-> name, result |-> "done"],
                               [verb |-> "create", secret |-> name, result |-> "done"]>>
    /\ \E p \in {"pre", "test", "post"} : CreateCalls(p) # {}

\* the names of the pods this invocation created
CreatedPods ==
    { trace[i].pod : i \in { k \in DOMAIN trace : trace[k].ev = "create" /\ trace[k].ok } }

\* C8: when the context was cancelled during a non-dry Run, once Run has
\* returned and every goroutine it started has finished (no bulk delete
\* having failed), no pod labelled with the test name that this invocation
\* created is left on the cluster.
C8_CleanupGuaranteed ==
    (/\ pc = "done"
     /\ cancelled
     /\ ~dry
     /\ cleanupTasks = 0
     /\ ~podTask
     /\ oldPodTasks = 0
     /\ cleanupLog = 0) =>
        ~ \E p \in pods : p.label = name /\ p.name \in CreatedPods

\* the delete-by-label-selector call of the cancellation cleanup
CleanupDeleteCall == [namespace |-> Namespace, label |-> multiStageTestLabel, value |-> name]

\* C9: if the context is cancelled while a non-dry Run waits for a pod (no
\* bulk delete having been issued before), a delete-by-label-selector call
\* with the selector multi-stage label = test name is eventually issued
\* against the job namespace.
C9_CancelDuringWaitDeletes ==
    (cancelled /\ cancelAt = "wait" /\ ~dry /\ deleteCalls = <<>>)
        ~> (\E i \in DOMAIN deleteCalls : deleteCalls[i] = CleanupDeleteCall)

\* C9 witness: the context was cancelled during the wait for a pod, and the
\* bulk delete has been issued and has removed that pod while Run still waits.
C9_Witness ==
    /\ cancelAt = "wait"
    /\ pc = "wait"
    /\ ~dry
    /\ deleteCalls = <<CleanupDeleteCall>>
    /\ ~ \E p \in pods : p.name = podList[idx].name

\* the steps of the test definition
AllSteps == pre \o test \o post

\* C10: once Run has returned, for every container of every pod it started
\* there is exactly one test-case record in SubTests().
C10_ResultCompleteness ==
    pc = "done" =>
        \A i \in DOMAIN AllSteps :
            PodName(name, AllSteps[i].as) \in CreatedPods =>
                Cardinality({ k \in DOMAIN subTests :
                                subTests[k] = [pod |-> PodName(name, AllSteps[i].as),
                                               container |-> AllSteps[i].as] }) = 1

---------------------------------------------------------------------------
\* some pod-creation call was issued, or some pod handed to the logger
SomePodRun ==
    \/ \E i \in DOMAIN trace : trace[i].ev = "create"
    \/ \E k \in DOMAIN logged : logged[k].kind = "Pod"

\* C11 as stated: for a test definition whose pre, test and post lists are
\* all empty, Run returns no error, no pod is created and SubTests() is empty.
C11_EmptyRunSucceeds ==
    (pc = "done" /\ AllSteps = <<>>) =>
        /\ ret = <<>>
        /\ ~SomePodRun
        /\ pods = {ForeignPod}
        /\ SubTests = <<>>

\* C11 amended: for a test definition whose pre, test and post lists are all
\* empty, Run creates no pod and SubTests() is empty; Run returns no error
\* once the configuration checks and the provisioning of the secret have
\* passed, and otherwise returns the error of the check or of the
\* provisioning that failed.
C11_EmptyRunCreatesNothing ==
    (pc = "done" /\ AllSteps = <<>>) =>
        /\ ~SomePodRun
        /\ pods = {ForeignPod}
        /\ SubTests = <<>>
        /\ PhasesReached => ret = <<>>
        /\ ~PhasesReached =>
              /\ Len(ret) = 1
              /\ ret[1].kind \in {"secretNotFound", "param", "createSecret"}

\* C11 witness: a test with a cluster profile and no step has passed the
\* configuration checks, run its three empty phases and returned.
C11_Witness ==
    /\ pc = "done"
    /\ AllSteps = <<>>
    /\ profile # ""
    /\ PhaseReturns("pre") # {} /\ PhaseReturns("test") # {} /\ PhaseReturns("post") # {}
    /\ ret = <<>>

---------------------------------------------------------------------------
\* the calls of phase p that failed, in the order they were issued
FailedCalls(p) ==
    LET failed(e) == e.phase = p /\ e.ev \in {"create", "wait"} /\ ~e.ok
    IN SelectSeq(trace, failed)

\* C12: in the post phase, which is not short-circuited, the error of the
\* phase aggregates the failure of every pod that failed: once Run has
\* returned, the failures of the post-phase pods are, one for one and in
\* order, the entries of the post-phase error, and that error is in the
\* aggregate Run returns.
C12_PostAggregatesEveryFailure ==
    (pc = "done" /\ PhasesReached) =>
        LET failed == FailedCalls("post")
        IN failed # <<>> =>
              /\ ret # <<>>
              /\ ret[Len(ret)].phase = "post"
              /\ Len(ret[Len(ret)].err) = Len(failed)
              /\ \A i \in DOMAIN failed :
                    /\ ret[Len(ret)].err[i].kind = failed[i].ev
                    /\ ret[Len(ret)].err[i].pod = failed[i].pod

\* C12 witness: two post-phase pods failed, the first when it was created and
\* the second while it was waited for, and Run has returned.
C12_Witness ==
    /\ pc = "done"
    /\ Len(FailedCalls("post")) = 2
    /\ FailedCalls("post")[1].ev = "create"
    /\ FailedCalls("post")[2].ev = "wait"
    /\ FailedCalls("post")[1].pod # FailedCalls("post")[2].pod

---------------------------------------------------------------------------
\* phase p ran and returned an error: synthesis failed for one of its steps,
\* or a call made for one of its pods failed
PhaseFailed(p) ==
    /\ PhaseBegins(p) # {}
    /\ ~SynthesisOK(StepsOf(p)) \/ FailedCalls(p) # <<>>

\* C13: once the configuration checks and the provisioning of the secret
\* have passed, Run returns nil iff no phase that ran returned an error;
\* otherwise the aggregate it returns holds one entry per failed phase, in
\* the order pre, test, post; a pre entry and a test entry never both appear.
C13_AggregateOfFailedPhases ==
    (pc = "done" /\ PhasesReached) =>
        LET failedPhases == SelectSeq(<<"pre", "test", "post">>, PhaseFailed)
        IN /\ ret = <<>> <=> \A p \in {"pre", "test", "post"} : ~PhaseFailed(p)
           /\ Len(ret) = Len(failedPhases)
           /\ \A i \in DOMAIN ret :
                 /\ ret[i].kind = "phase"
                 /\ ret[i].phase = failedPhases[i]
                 /\ ret[i].err # <<>>
           /\ ~(PhaseFailed("pre") /\ PhaseFailed("test"))

\* C13 witness: the test phase failed on a pod, the post phase failed too, and
\* Run returned the two entries in that order.
C13_Witness ==
    /\ pc = "done"
    /\ FailedCalls("test") # <<>>
    /\ FailedCalls("post") # <<>>
    /\ Len(ret) = 2
    /\ ret[1].phase = "test"
    /\ ret[2].phase = "post"

---------------------------------------------------------------------------
\* the objects a dry run hands to the logger for the steps of a phase
LoggedPods(steps) ==
    [i \in DOMAIN steps |-> [kind |-> "Pod", name |-> PodName(name, steps[i].as)]]

\* what the logger holds once a dry Run has returned from the phases: the
\* results secret, then the pods of every phase that ran and synthesized
DryRunLog ==
    <<[kind |-> "Secret", name |-> name]>>
    \o (IF SynthesisOK(pre) THEN LoggedPods(pre) ELSE <<>>)
    \o (IF SynthesisOK(pre) /\ SynthesisOK(test) THEN LoggedPods(test) ELSE <<>>)
    \o (IF SynthesisOK(post) THEN LoggedPods(post) ELSE <<>>)

\* C14: a dry Run mutates nothing on the cluster: no secret is deleted or
\* created, no pod is created or deleted and no delete by label is issued,
\* cancelled or not; no pod fails and no subtest is recorded; and once Run
\* has returned from the phases the logger holds the results secret followed
\* by the pod of every step of the phases that ran.
C14_DryRunMutatesNothing ==
    (dry /\ pc # "start") =>
        /\ MutatingSecretCalls = <<>>
        /\ name \notin secrets
        /\ pods = {ForeignPod}
        /\ deleteCalls = <<>>
        /\ \A i \in DOMAIN trace : trace[i].ev \notin {"create", "wait"}
        /\ podErrs = <<>>
        /\ SubTests = <<>>
        /\ (pc = "done" /\ PhasesReached) =>
              /\ logged = DryRunLog
              /\ \A i \in DOMAIN ret : \A k \in DOMAIN ret[i].err : ret[i].err[k].kind = "synthesis"

\* C14 witness: a dry Run of a test with three steps was cancelled, the
\* cleanup goroutines of its three phases have all woken up, and Run has
\* returned with the secret and the three pods in the logger.
C14_Witness ==
    /\ dry
    /\ pc = "done"
    /\ cancelled
    /\ cleanupTasks = 0
    /\ Cardinality(PhaseBegins("pre") \cup PhaseBegins("test") \cup PhaseBegins("post")) = 3
    /\ Len(logged) = 4
    /\ ret = <<>>

---------------------------------------------------------------------------
\* the synthesis errors of a step list: one per step that cannot be
\* synthesized, in the order of the steps
SynthesisErrors(steps) ==
    LET bad(step) == ~resourcesFor(step)
        failing == SelectSeq(steps, bad)
    IN [i \in DOMAIN failing |-> [kind |-> "synthesis", test |-> name, pod |-> failing[i].as]]

\* C15: when synthesis fails for at least one step of a phase that ran,
\* synthesis was attempted for every step of the phase: the phase returned
\* the aggregate of the synthesis errors of all its failing steps, and no
\* pod of the phase was created or handed to the logger, not even the pod of
\* a step that synthesized.
C15_SynthesisFailureRunsNoPod ==
    \A p \in {"pre", "test", "post"} :
        (~SynthesisOK(StepsOf(p)) /\ PhaseReturns(p) # {}) =>
            LET podNames == { PodName(name, StepsOf(p)[i].as) : i \in DOMAIN StepsOf(p) }
            IN /\ PhaseError(p) = SynthesisErrors(StepsOf(p))
               /\ CreateCalls(p) = {}
               /\ CreatedPods \cap podNames = {}
               /\ \A k \in DOMAIN logged : logged[k].name \notin podNames

\* C15 witness: the post phase has a step that synthesizes followed by one
\* that does not; the phase returned the one synthesis error and Run returned.
C15_Witness ==
    /\ pc = "done"
    /\ Len(post) = 2
    /\ resourcesFor(post[1])
    /\ ~resourcesFor(post[2])
    /\ Len(PhaseError("post")) = 1
    /\ CreateCalls("post") = {}

---------------------------------------------------------------------------
\* the position in phase p of the step whose pod is podName, 0 if none
StepIndex(p, podName) ==
    LET at == { i \in DOMAIN StepsOf(p) : PodName(name, StepsOf(p)[i].as) = podName }
    IN IF at = {} THEN 0 ELSE CHOOSE i \in at : TRUE

\* the pods created and not yet returned from their wait
PodsWaitedOn ==
    LET waits == { k \in DOMAIN trace : trace[k].ev = "wait" }
    IN { trace[i].pod : i \in { k \in DOMAIN trace :
            /\ trace[k].ev = "create"
            /\ trace[k].ok
            /\ ~\E j \in waits : j > k /\ trace[j].pod = trace[k].pod } }

\* C20: the pods of an invocation run strictly one after the other in the
\* order of declaration: of two creation calls of a phase the earlier one is
\* for the earlier step; a pod is created only once the wait on every pod
\* created before it has returned; and at most one pod is created and being
\* waited on at any time.
C20_PodsRunSequentially ==
    /\ \A i, j \in { k \in DOMAIN trace : trace[k].ev = "create" } :
          i < j =>
              /\ trace[i].phase = trace[j].phase =>
                    /\ StepIndex(trace[i].phase, trace[i].pod) > 0
                    /\ StepIndex(trace[i].phase, trace[i].pod) < StepIndex(trace[j].phase, trace[j].pod)
              /\ trace[i].ok =>
                    \E k \in DOMAIN trace :
                        i < k /\ k < j /\ trace[k].ev = "wait" /\ trace[k].pod = trace[i].pod
    /\ Cardinality(PodsWaitedOn) <= 1
    /\ PodsWaitedOn # {} => pc = "wait" /\ PodsWaitedOn = {podList[idx].name}

\* C20 witness: the second pod of a phase is being waited on, after the
\* first one was created and its wait returned.
C20_Witness ==
    /\ pc = "wait"
    /\ idx = 2
    /\ \E i, k, j \in DOMAIN trace :
          /\ i < k /\ k < j
          /\ trace[i].ev = "create" /\ trace[i].ok /\ trace[i].pod = podList[1].name
          /\ trace[k].ev = "wait" /\ trace[k].pod = podList[1].name
          /\ trace[j].ev = "create" /\ trace[j].ok /\ trace[j].pod = podList[2].name

---------------------------------------------------------------------------
\* C17: in every state of the step, before, during and after Run, Done()
\* reports (false, no error), Creates() returns no link and Provides()
\* returns no parameter and no link.
C17_NeverDoneCreatesNothing ==
    /\ ~Done.done
    /\ Done.err = <<>>
    /\ Creates = <<>>
    /\ Provides.parameters = <<>>
    /\ Provides.link = <<>>

\* C17 witness: Run has run every pod of a test with three steps and
\* returned without error, and Done() still reports false.
C17_Witness ==
    /\ pc = "done"
    /\ ret = <<>>
    /\ Len(AllSteps) = 3
    /\ Len(SubTests) = 3
    /\ ~Done.done

---------------------------------------------------------------------------
\* the number of links of a kind among the links Requires returned
LinkCount(kind) == Cardinality({ i \in DOMAIN requires.ret : requires.ret[i].kind = kind })

\* the place of a kind of link in the answer of Requires
LinkRank(kind) ==
    CASE kind = "internalImage" -> 1
      [] kind = "imagesReady" -> 2
      [] kind = "releaseImages" -> 3
      [] OTHER -> 4

\* C16: over the concatenation of pre, test and post, Requires() returns one
\* internal-image link per step whose image is a pipeline image, in step
\* order; then the images-ready link, once, iff the image of some step is a
\* non-pipeline image this configuration builds; then the release-images
\* link, once, iff the image of some step is neither; then the links of
\* RELEASE_IMAGE_INITIAL and of RELEASE_IMAGE_LATEST iff a profile is set.
C16_RequiresLinks ==
    requires.called =>
        LET r == requires.ret
            onPipeline(step) == step.from \in PipelineImages
            pipelineSteps == SelectSeq(AllSteps, onPipeline)
            built == \E i \in DOMAIN AllSteps :
                        AllSteps[i].from \in BuiltImages \ PipelineImages
            other == \E i \in DOMAIN AllSteps :
                        AllSteps[i].from \notin BuiltImages \cup PipelineImages
            params == { i \in DOMAIN r : r[i].kind = "parameter" }
        IN /\ LinkCount("internalImage") = Len(pipelineSteps)
           /\ \A i \in DOMAIN pipelineSteps :
                 r[i] = [kind |-> "internalImage", name |-> pipelineSteps[i].from]
           /\ LinkCount("imagesReady") = IF built THEN 1 ELSE 0
           /\ LinkCount("releaseImages") = IF other THEN 1 ELSE 0
           /\ \A i, j \in DOMAIN r : i < j => LinkRank(r[i].kind) <= LinkRank(r[j].kind)
           /\ profile = "" => params = {}
           /\ profile # "" =>
                 /\ params = {Len(r) - 1, Len(r)}
                 /\ r[Len(r) - 1].name = "RELEASE_IMAGE_INITIAL"
                 /\ r[Len(r)].name = "RELEASE_IMAGE_LATEST"

\* C16 witness: a test with a profile whose three steps run in a release
\* image, a pipeline image and an image of the configuration, in that order.
C16_Witness ==
    /\ requires.called
    /\ profile # ""
    /\ Len(AllSteps) = 3
    /\ AllSteps[1].from = "cli"
    /\ AllSteps[2].from = "src"
    /\ AllSteps[3].from = "installer"
    /\ Len(requires.ret) = 5
    /\ requires.ret[1].kind = "internalImage"
    /\ requires.ret[2].kind = "imagesReady"
    /\ requires.ret[3].kind = "releaseImages"

---------------------------------------------------------------------------
\* the names of the pods the tests of other names can have in the namespace
OtherTestsPodNames ==
    { PodName(t, a) : t \in SharedTestNames \ {name}, a \in SharedStepNames }

\* C18: for two tests of different names in one namespace, no pod name
\* <test-name>-<step-as> of one is a pod name of the other: no pod the
\* invocation creates or replaces has the name of a pod of a test of another
\* name, and every pod of another test stays on the cluster under its label.
C18_NamePrefixIsolates ==
    /\ \A i \in DOMAIN trace :
          trace[i].ev = "create" => trace[i].pod \notin OtherTestsPodNames
    /\ \A p \in pods : p.label = name => p.name \notin OtherTestsPodNames

---------------------------------------------------------------------------
\* q is an initial part of r
IsPrefix(q, r) == Len(q) <= Len(r) /\ \A i \in DOMAIN q : r[i] = q[i]

\* C19: editProwConfig adds org/repo to the repositories of a Tide query only
\* when no Tide query lists it already: when a query lists org/repo the
\* configuration is left as it is; an application after the first, with the
\* same answers, changes nothing; and in every application each query keeps
\* the repositories it had, in their order, with at most org/repo appended.
C19_EditProwConfigAddsOnce ==
    \A k \in DOMAIN edits :
        LET before == edits[k].before
            after == edits[k].after
        IN /\ ForRepo(before, RepoOf(config)) # {} => after = before
           /\ k > 1 => after = edits[1].after
           /\ Len(after) = Len(before)
           /\ \A i \in DOMAIN before :
                 /\ IsPrefix(before[i].repos, after[i].repos)
                 /\ after[i].repos \in {before[i].repos, Append(before[i].repos, RepoOf(config))}

\* C19 witness: the first application added org/repo after openshift/ci-tools
\* in one query and left the other query alone; the second changed nothing.
C19_Witness ==
    /\ Len(edits) = 2
    /\ edits[1].before = <<[repos |-> <<"openshift/origin">>], [repos |-> <<"openshift/ci-tools">>]>>
    /\ edits[1].after = <<[repos |-> <<"openshift/origin">>],
                          [repos |-> <<"openshift/ci-tools", "org/repo">>]>>
    /\ edits[2].after = edits[1].after
    /\ prowConfig = edits[2].after

---------------------------------------------------------------------------
\* C21: the goroutines blocked on the context never keep Run from
\* returning: provided every cluster call and every wait for a pod returns,
\* Run returns, whether or not the context is ever cancelled and whether or
\* not a cleanup or notifier goroutine has run.
C21_RunTerminates == <>(pc = "done")

\* C21 witness: Run has returned from a non-dry run whose context was never
\* cancelled, with a cleanup goroutine and a notifier goroutine still
\* blocked on the context.
C21_Witness ==
    /\ pc = "done"
    /\ ~dry
    /\ ~cancelled
    /\ cleanupTasks > 0
    /\ oldPodTasks > 0

---------------------------------------------------------------------------
\* C22: both kinds of goroutine are joined before the call that started
\* them returns: once Run has returned, no cleanup goroutine and no notifier
\* goroutine it started is still pending, so no bulk delete and no notifier
\* cancellation happens for the invocation after Run has returned.
C22_TasksJoinedAtReturn ==
    pc = "done" =>
        /\ cleanupTasks = 0
        /\ ~podTask
        /\ oldPodTasks = 0

---------------------------------------------------------------------------
\* the bulk deletes of the cancellation cleanup that failed
FailedDeletes == cleanupLog

\* C23: a failure of the bulk delete of the cancellation cleanup is only
\* logged: the step that issues a bulk delete, failing or not, leaves the
\* position of Run, the pod it is at, the errors it has collected and the
\* error it returns as they are; and the error Run returns holds nothing but
\* the errors of the phases that failed on their own steps.
C23_DeleteFailureOnlyLogged ==
    /\ [][deleteCalls' # deleteCalls =>
            /\ UNCHANGED <<pc, phase, podList, idx, podErrs, errs, ret, trace, subTests>>
            /\ FailedDeletes' \in {FailedDeletes, FailedDeletes + 1}]_vars
    /\ [](pc = "done" /\ PhasesReached =>
            /\ \A i \in DOMAIN ret : ret[i].kind = "phase" /\ PhaseFailed(ret[i].phase)
            /\ \A i \in DOMAIN ret : \A k \in DOMAIN ret[i].err :
                  ret[i].err[k].kind \in {"synthesis", "create", "wait"})

\* C23 witness: the context was cancelled while Run was waiting for a pod and
\* a bulk delete failed; Run ran the three pods of the test and returned no
\* error.
C23_Witness ==
    /\ pc = "done"
    /\ FailedDeletes > 0
    /\ cancelAt = "wait"
    /\ ret = <<>>
    /\ Len(SubTests) = 3

---------------------------------------------------------------------------
\* a notifier goroutine of runPod has just run
NotifierTaskRan ==
    \/ podTask /\ ~podTask' /\ notifierCancelled'
    \/ oldPodTasks' < oldPodTasks

\* C24: the goroutine of runPod only cancels the notifier of its pod: the
\* step in which it runs changes no pod and no secret and issues no delete
\* and no other call; and it is started after the dry-run check, so a dry
\* run never has a notifier goroutine, pending or run.
C24_PodTaskOnlyCancelsNotifier ==
    /\ [][NotifierTaskRan =>
            UNCHANGED <<pods, secrets, logged, deleteCalls, secretCalls, paramCalls, trace,
                        cleanupLog, cleanupTasks>>]_vars
    /\ []((dry /\ pc # "start") => ~podTask /\ oldPodTasks = 0 /\ ~notifierCancelled)

\* C24 witness: the context was cancelled during the wait for a pod, the
\* goroutine of that pod has cancelled its notifier, and the pod is still on
\* the cluster with no bulk delete issued.
C24_Witness ==
    /\ pc = "wait"
    /\ notifierCancelled
    /\ ~podTask
    /\ deleteCalls = <<>>
    /\ \E p \in pods : p.name = podList[idx].name

---------------------------------------------------------------------------
\* C25: every pod Run creates is named <test-name>-<step-as> for a step of
\* the test and carries the multi-stage label with the test name as value,
\* so the label selector of the cancellation cleanup selects every pod the
\* invocation created: a bulk delete would leave none of them.
C25_CreatedPodsNamedAndLabelled ==
    /\ \A i \in DOMAIN trace :
          trace[i].ev = "create" =>
              \E k \in DOMAIN AllSteps : trace[i].pod = PodName(name, AllSteps[k].as)
    /\ \A i \in DOMAIN podList : podList[i].label = name
    /\ \A p \in pods : p.name \in CreatedPods => p.label = name /\ p \in Selected(name)
    /\ \A p \in deletePods(name) : p.name \notin CreatedPods

\* C25 witness: two pods of the test are on the cluster, both selected by
\* the label of the test, next to the pod of another test, which is not.
C25_Witness ==
    /\ Cardinality({ p \in pods : p.name \in CreatedPods }) = 2
    /\ Cardinality(Selected(name)) = 2
    /\ deletePods(name) = {ForeignPod}

---------------------------------------------------------------------------
\* the waits that returned without error, in the order they returned
CompletedWaits ==
    LET completed(e) == e.ev = "wait" /\ e.ok
    IN SelectSeq(trace, completed)

\* SubTests() holds the subtests of the pods that completed, in the order
\* they were run, and nothing of a pod whose creation or wait failed
SubTestsOfCompletedPods ==
    /\ Len(SubTests) = Len(CompletedWaits)
    /\ \A i \in DOMAIN SubTests : SubTests[i].pod = CompletedWaits[i].pod
    /\ \A i \in DOMAIN SubTests :
          \A p \in {"pre", "test", "post"} : \A k \in DOMAIN FailedCalls(p) :
              SubTests[i].pod # FailedCalls(p)[k].pod

\* the errors runPod has returned so far
RunPodErrors ==
    UNION { { PodFailures(p)[k] : k \in DOMAIN PodFailures(p) } : p \in {"pre", "test", "post"} }

---------------------------------------------------------------------------
\* the number of phases whose pod execution has started: runPods was called
PodExecutionsStarted ==
    Cardinality({ i \in DOMAIN trace :
                    trace[i].ev = "begin" /\ SynthesisOK(StepsOf(trace[i].phase)) })

\* C27 as stated: no bulk delete is issued while the context is not
\* cancelled; each pod execution of a phase registers one cleanup goroutine,
\* and once the context is cancelled and the goroutines have run, the bulk
\* deletes are as many as the phases whose pod execution has started.
C27_OneDeletePerPhaseStarted ==
    /\ ~cancelled => deleteCalls = <<>> /\ cleanupTasks = PodExecutionsStarted
    /\ (cancelled /\ cleanupTasks = 0) => Len(deleteCalls) = PodExecutionsStarted

\* C27 amended: no bulk delete is issued while the context is not cancelled;
\* each pod execution of a phase registers one cleanup goroutine; in a run
\* that is not dry each goroutine that has woken up has issued one bulk
\* delete, so that once all have run the bulk deletes are as many as the
\* phases whose pod execution has started; in a dry run none is ever issued.
C27_NoSpontaneousCleanup ==
    /\ ~cancelled => deleteCalls = <<>> /\ cleanupTasks = PodExecutionsStarted
    /\ ~dry => Len(deleteCalls) + cleanupTasks = PodExecutionsStarted
    /\ dry => deleteCalls = <<>>
    /\ \A i \in DOMAIN deleteCalls : deleteCalls[i] = CleanupDeleteCall

\* C27 witness: a run that is not dry was cancelled, the pod execution of
\* its three phases has started, and the three cleanup goroutines have each
\* issued their bulk delete.
C27_Witness ==
    /\ ~dry
    /\ cancelled
    /\ pc = "done"
    /\ PodExecutionsStarted = 3
    /\ cleanupTasks = 0
    /\ Len(deleteCalls) = 3


\* ------------------------------------------------ what the resolver shows

\* the status the last request was answered with
AnsweredStatus == ObservedStatus(response)

\* the first of org, repo, branch that the last request left empty
FirstEmptyQuery ==
    IF request.org = "" THEN "org" ELSE IF request.repo = "" THEN "repo" ELSE "branch"

\* the last request left one of org, repo, branch empty
SomeQueryEmpty == request.org = "" \/ request.repo = "" \/ request.branch = ""

\* all errors counted, whatever the label
ErrorTotal ==
    errorRate["query missing org"] + errorRate["query missing repo"]
    + errorRate["query missing branch"] + errorRate["config not found"]
    + errorRate["failed to resolve config with registry"]
    + errorRate["failed to marshal config"]

\* C28: the /config handler writes exactly one status per request: 501 for
\* a method other than GET, with no query parameter read and no agent
\* called; else 400 naming the first of org, repo, branch that is empty,
\* with no agent called, whatever the variant; else 400 if the config agent
\* has no config; else 500 if the registry resolution or the JSON
\* marshalling fails; else 200 with the resolved config.
C28_StatusByPriority ==
    request # NoRequest =>
        /\ Len(response.headers) = 1
        /\ IF request.method # "GET"
           THEN /\ AnsweredStatus = 501
                /\ response.queried = <<>>
                /\ response.calls = <<>>
           ELSE IF SomeQueryEmpty
           THEN /\ AnsweredStatus = 400
                /\ response.body = FirstEmptyQuery \o " query missing or incorrect"
                /\ response.queried[Len(response.queried)] = FirstEmptyQuery
                /\ response.calls = <<>>
           ELSE IF ~answers.getConfig
           THEN /\ AnsweredStatus = 400
                /\ response.calls = <<"GetConfig">>
           ELSE IF ~answers.resolveConfig \/ ~answers.marshal
           THEN AnsweredStatus = 500
           ELSE /\ AnsweredStatus = 200
                /\ response.body = "config"

\* a GET request with an org but neither repo nor branch was answered 400
\* for the repo, after a request with another method was answered 501
C28_Witness ==
    /\ request.method = "GET"
    /\ request.org # "" /\ request.repo = "" /\ request.branch = ""
    /\ response.headers = <<400>>
    /\ response.label = "query missing repo"
    /\ observed[501] = 1

=============================================================================
